---- MODULE Spec2Model ----
(***************************************************************************)
(* A model of simple_re2's virtual machine (src/src/simple_re2/vm.py):     *)
(* the instruction set, WorkQueue.add (epsilon closure), _run_on_byte (the *)
(* byte step) and run (the driver).  Program indices are 0-based as in the *)
(* source; TLA+ sequences are 1-based, so instrs[ip] of the source is      *)
(* At(instrs, ip) here.                                                    *)
(***************************************************************************)
EXTENDS Integers, Sequences, FiniteSets, TLC

VARIABLES
  prog,           \* run's argument prog
  input,          \* run's argument input
  instrs,         \* the array the machine runs: prog behind the start instruction
  q, next_q,      \* the two work queues of run
  sp,             \* run's position in input
  last_match_sp,  \* run's result so far
  clist, i, c,    \* _run_on_byte: the active list, the cursor, the byte
  ip, ip_stack,   \* WorkQueue.add: its loop variables
  seed, wq0,      \* WorkQueue.add: its argument ip, and the queue as the call found it
  tgt,            \* the queue the current call of add fills: "q" or "next_q"
  ret,            \* where the current call of add returns to
  pc,             \* the place in run
  err             \* the exception that left run, "" while there is none

vars == <<prog, input, instrs, q, next_q, sp, last_match_sp,
          clist, i, c, ip, ip_stack, seed, wq0, tgt, ret, pc, err>>

-----------------------------------------------------------------------------
(* Bounds of the model. *)

\* longest input given to run
MaxInputLen == 2
\* longest program of the exhaustively enumerated family
MaxProgLen == 1
\* largest hint of an enumerated ByteRange
MaxHint == 3
\* entries ip_stack can hold before the interpreter is out of memory
MaxStack == 4

-----------------------------------------------------------------------------
(* Instructions: vm.py lines 4-49.  One record shape for all four classes; *)
(* the fields a class does not have are 0.                                 *)

\* Python's None, for ip and last_match_sp (both are otherwise >= 0)
None == -1

CONTINUE == "+"
LAST == "."

Bytes == {97, 98}

InstrByteRange(indicator, min, max, hint, out) ==
  [kw |-> "byte", indicator |-> indicator, min |-> min, max |-> max,
   hint |-> hint, out |-> out, sp_buf_index |-> 0]

InstrMatch(indicator) ==
  [kw |-> "match!", indicator |-> indicator, min |-> 0, max |-> 0,
   hint |-> 0, out |-> 0, sp_buf_index |-> 0]

InstrNop(indicator, out) ==
  [kw |-> "nop", indicator |-> indicator, min |-> 0, max |-> 0,
   hint |-> 0, out |-> out, sp_buf_index |-> 0]

InstrCapture(indicator, sp_buf_index, out) ==
  [kw |-> "capture", indicator |-> indicator, min |-> 0, max |-> 0,
   hint |-> 0, out |-> out, sp_buf_index |-> sp_buf_index]

\* instrs[k] of the source, for 0 <= k < len(instrs)
At(is, k) == is[k + 1]

\* line 81 reading instrs[ip] where it is to read instrs[ip - 1]
Prev_Self(is, k) == is[k + 1]

\* instrs[ip - 1] of the source: Python reads index -1 as the last element
Prev(is, k) == IF k = 0 THEN is[Len(is)] ELSE is[k]

-----------------------------------------------------------------------------
(* WorkQueue: vm.py lines 52-118.  ordered_dict keeps its keys in          *)
(* insertion order; only the keys are ever read.                           *)

EmptyQueue == [ordered_dict |-> <<>>, contains_InstrMatch |-> FALSE]

Range(s) == {s[k] : k \in 1..Len(s)}

to_list(wq) == wq.ordered_dict

is_empty(wq) == Len(wq.ordered_dict) = 0

\* clear with line 115 forgotten: the match flag stays as it was
clear_KeepsFlag(wq) == [wq EXCEPT !.ordered_dict = <<>>]

\* Lines 113-115
clear(wq) == [ordered_dict |-> <<>>, contains_InstrMatch |-> FALSE]

\* The state of one call of WorkQueue.add: the loop variables, the queue it
\* fills and the exception that ended it ("" while there is none).
AddState(p, stack, wq, e) == [ip |-> p, ip_stack |-> stack, wq |-> wq, err |-> e]

AddLoopCond(st) == st.ip # None \/ Len(st.ip_stack) > 0

\* AddIter with line 81 forgotten: every pointer met is recorded, head of a
\* sublist or not.
AddIter_RecordsEveryPointer(is, st) ==
  LET popped == st.ip = None
      p      == IF popped THEN st.ip_stack[Len(st.ip_stack)] ELSE st.ip
      stack  == IF popped THEN SubSeq(st.ip_stack, 1, Len(st.ip_stack) - 1)
                ELSE st.ip_stack
  IN  IF p >= Len(is)
      THEN AddState(p, stack, st.wq, "IndexError")
      ELSE IF p \in Range(st.wq.ordered_dict)
      THEN AddState(None, stack, st.wq, "")
      ELSE
        LET instr == At(is, p)
            wq1 == [st.wq EXCEPT !.ordered_dict = Append(@, p)]
        IN  CASE instr.kw \in {"capture", "nop"} ->
                   IF instr.indicator = CONTINUE
                   THEN IF Len(stack) >= MaxStack
                        THEN AddState(p, stack, wq1, "MemoryError")
                        ELSE AddState(instr.out, Append(stack, p + 1), wq1, "")
                   ELSE AddState(instr.out, stack, wq1, "")
              [] instr.kw = "byte" ->
                   IF instr.indicator = LAST
                   THEN AddState(None, stack, wq1, "")
                   ELSE AddState(p + 1, stack, wq1, "")
              [] instr.kw = "match!" ->
                   IF instr.indicator # LAST
                   THEN AddState(p, stack, wq1, "AssertionError")
                   ELSE AddState(None, stack,
                                 [wq1 EXCEPT !.contains_InstrMatch = TRUE], "")
              [] OTHER -> AddState(p, stack, wq1, "ValueError")

\* AddIter with the two branches of lines 86-88 exchanged: the walk goes on
\* at the sibling and out is the pointer put aside.
AddIter_SiblingFirst(is, st) ==
  LET popped == st.ip = None
      p      == IF popped THEN st.ip_stack[Len(st.ip_stack)] ELSE st.ip
      stack  == IF popped THEN SubSeq(st.ip_stack, 1, Len(st.ip_stack) - 1)
                ELSE st.ip_stack
  IN  IF p >= Len(is)
      THEN AddState(p, stack, st.wq, "IndexError")
      ELSE IF p \in Range(st.wq.ordered_dict)
      THEN AddState(None, stack, st.wq, "")
      ELSE
        LET instr == At(is, p)
            wq1 == IF Prev(is, p).indicator = LAST
                   THEN [st.wq EXCEPT !.ordered_dict = Append(@, p)]
                   ELSE st.wq
        IN  CASE instr.kw \in {"capture", "nop"} ->
                   IF instr.indicator = CONTINUE
                   THEN IF Len(stack) >= MaxStack
                        THEN AddState(p, stack, wq1, "MemoryError")
                        ELSE AddState(p + 1, Append(stack, instr.out), wq1, "")
                   ELSE AddState(instr.out, stack, wq1, "")
              [] instr.kw = "byte" ->
                   IF instr.indicator = LAST
                   THEN AddState(None, stack, wq1, "")
                   ELSE AddState(p + 1, stack, wq1, "")
              [] instr.kw = "match!" ->
                   IF instr.indicator # LAST
                   THEN AddState(p, stack, wq1, "AssertionError")
                   ELSE AddState(None, stack,
                                 [wq1 EXCEPT !.contains_InstrMatch = TRUE], "")
              [] OTHER -> AddState(p, stack, wq1, "ValueError")

\* AddIter with InstrCapture missing from the case of line 84: a Capture
\* falls through to the default case.
AddIter_CaptureUnknown(is, st) ==
  LET popped == st.ip = None
      p      == IF popped THEN st.ip_stack[Len(st.ip_stack)] ELSE st.ip
      stack  == IF popped THEN SubSeq(st.ip_stack, 1, Len(st.ip_stack) - 1)
                ELSE st.ip_stack
  IN  IF p >= Len(is)
      THEN AddState(p, stack, st.wq, "IndexError")
      ELSE IF p \in Range(st.wq.ordered_dict)
      THEN AddState(None, stack, st.wq, "")
      ELSE
        LET instr == At(is, p)
            wq1 == IF Prev(is, p).indicator = LAST
                   THEN [st.wq EXCEPT !.ordered_dict = Append(@, p)]
                   ELSE st.wq
        IN  CASE instr.kw = "nop" ->
                   IF instr.indicator = CONTINUE
                   THEN IF Len(stack) >= MaxStack
                        THEN AddState(p, stack, wq1, "MemoryError")
                        ELSE AddState(instr.out, Append(stack, p + 1), wq1, "")
                   ELSE AddState(instr.out, stack, wq1, "")
              [] instr.kw = "byte" ->
                   IF instr.indicator = LAST
                   THEN AddState(None, stack, wq1, "")
                   ELSE AddState(p + 1, stack, wq1, "")
              [] instr.kw = "match!" ->
                   IF instr.indicator # LAST
                   THEN AddState(p, stack, wq1, "AssertionError")
                   ELSE AddState(None, stack,
                                 [wq1 EXCEPT !.contains_InstrMatch = TRUE], "")
              [] OTHER -> AddState(p, stack, wq1, "ValueError")

\* AddIter with the duplicate test of lines 74-77 forgotten: a pointer is
\* walked, and recorded, every time it is met.
AddIter_NoDuplicateGuard(is, st) ==
  LET popped == st.ip = None
      p      == IF popped THEN st.ip_stack[Len(st.ip_stack)] ELSE st.ip
      stack  == IF popped THEN SubSeq(st.ip_stack, 1, Len(st.ip_stack) - 1)
                ELSE st.ip_stack
  IN  IF p >= Len(is)
      THEN AddState(p, stack, st.wq, "IndexError")
      ELSE
        LET instr == At(is, p)
            wq1 == IF Prev(is, p).indicator = LAST
                   THEN [st.wq EXCEPT !.ordered_dict = Append(@, p)]
                   ELSE st.wq
        IN  CASE instr.kw \in {"capture", "nop"} ->
                   IF instr.indicator = CONTINUE
                   THEN IF Len(stack) >= MaxStack
                        THEN AddState(p, stack, wq1, "MemoryError")
                        ELSE AddState(instr.out, Append(stack, p + 1), wq1, "")
                   ELSE AddState(instr.out, stack, wq1, "")
              [] instr.kw = "byte" ->
                   IF instr.indicator = LAST
                   THEN AddState(None, stack, wq1, "")
                   ELSE AddState(p + 1, stack, wq1, "")
              [] instr.kw = "match!" ->
                   IF instr.indicator # LAST
                   THEN AddState(p, stack, wq1, "AssertionError")
                   ELSE AddState(None, stack,
                                 [wq1 EXCEPT !.contains_InstrMatch = TRUE], "")
              [] OTHER -> AddState(p, stack, wq1, "ValueError")

\* One iteration of the while loop of WorkQueue.add (lines 70-108).  The
\* append of line 87 on a stack of MaxStack entries finds no memory left:
\* a walk that keeps pushing ends in MemoryError.
AddIter(is, st) ==
  LET popped == st.ip = None
      p      == IF popped THEN st.ip_stack[Len(st.ip_stack)] ELSE st.ip
      stack  == IF popped THEN SubSeq(st.ip_stack, 1, Len(st.ip_stack) - 1)
                ELSE st.ip_stack
  IN  IF p >= Len(is)
      THEN AddState(p, stack, st.wq, "IndexError")
      ELSE IF p \in Range(st.wq.ordered_dict)
      THEN AddState(None, stack, st.wq, "")
      ELSE
        LET instr == At(is, p)
            wq1 == IF Prev(is, p).indicator = LAST
                   THEN [st.wq EXCEPT !.ordered_dict = Append(@, p)]
                   ELSE st.wq
        IN  CASE instr.kw \in {"capture", "nop"} ->
                   IF instr.indicator = CONTINUE
                   THEN IF Len(stack) >= MaxStack
                        THEN AddState(p, stack, wq1, "MemoryError")
                        ELSE AddState(instr.out, Append(stack, p + 1), wq1, "")
                   ELSE AddState(instr.out, stack, wq1, "")
              [] instr.kw = "byte" ->
                   IF instr.indicator = LAST
                   THEN AddState(None, stack, wq1, "")
                   ELSE AddState(p + 1, stack, wq1, "")
              [] instr.kw = "match!" ->
                   IF instr.indicator # LAST
                   THEN AddState(p, stack, wq1, "AssertionError")
                   ELSE AddState(None, stack,
                                 [wq1 EXCEPT !.contains_InstrMatch = TRUE], "")
              [] OTHER -> AddState(p, stack, wq1, "ValueError")

-----------------------------------------------------------------------------
(* _run_on_byte: vm.py lines 121-154. *)

\* line 134 with the upper end of the range forgotten
InRange_MinOnly(instr, byte) == instr.min <= byte

\* line 134
InRange(instr, byte) == instr.min <= byte /\ byte <= instr.max

\* Lines 146-148: the scan for the last instruction of the sublist, over the
\* entries of clist.  clist[k] past the end of clist raises IndexError.
RECURSIVE ScanLast(_, _, _, _)
ScanLast(is, cl, k, instr) ==
  IF instr.indicator = CONTINUE
  THEN IF k + 1 >= Len(cl)
       THEN [i |-> k + 1, err |-> "IndexError"]
       ELSE ScanLast(is, cl, k + 1, At(is, cl[k + 2]))
  ELSE [i |-> k, err |-> ""]

\* Lines 139-148: where the cursor stands after a ByteRange consumed the
\* byte, before the increment of line 154.
SkipSublist(is, cl, k) ==
  LET instr == At(is, cl[k + 1])
  IN  IF instr.hint > 0
      THEN [i |-> k + (instr.hint - 1), err |-> ""]
      ELSE ScanLast(is, cl, k, instr)

-----------------------------------------------------------------------------
(* The inputs: a program as the assembler hands it over, and a byte string. *)

Indicators == {CONTINUE, LAST}

Hints == 0..MaxHint

\* a jump target of a program of n instructions: an index of the array run
\* builds (0..n), or n + 1, which is outside it
Targets(n) == 0..(n + 1)

\* what the assembler can put in one line of a program of n instructions
Universe(n) ==
  {InstrMatch(ind) : ind \in Indicators}
    \cup {InstrNop(ind, out) : ind \in Indicators, out \in Targets(n)}
    \cup {InstrByteRange(ind, b, b, h, out) :
            ind \in Indicators, b \in Bytes, h \in Hints, out \in Targets(n)}

\* every program of at most MaxProgLen instructions
GeneralPrograms == UNION {[1..n -> Universe(n)] : n \in 0..MaxProgLen}

\* a_or_eps_or_b.re2asm, the program of tests/test_vm.py: one sublist of the
\* three alternatives a, empty, b, each leading to the match
AOrEpsOrB(h1, h3) ==
  << InstrByteRange(CONTINUE, 97, 97, h1, 4),
     InstrNop(CONTINUE, 4),
     InstrByteRange(LAST, 98, 98, h3, 4),
     InstrMatch(LAST) >>

FixturePrograms == {AOrEpsOrB(h1, h3) : h1 \in Hints, h3 \in Hints}

\* a byte class of two ranges ([ab], [aa], ...), then what follows it
ClassPrograms ==
  {<< InstrByteRange(CONTINUE, b1, b1, h1, o1),
      InstrByteRange(LAST, b2, b2, h2, o2),
      InstrMatch(LAST) >> :
     b1 \in Bytes, b2 \in Bytes, h1 \in Hints, h2 \in Hints,
     o1 \in {1, 3}, o2 \in {1, 3}}

\* alternatives of which one is the match and a later one consumes a byte
PriorityPrograms ==
  {<< InstrByteRange(CONTINUE, b1, b1, h1, o1),
      InstrNop(CONTINUE, 4),
      InstrNop(LAST, 5),
      InstrMatch(LAST),
      InstrByteRange(LAST, b5, b5, h5, o5) >> :
     b1 \in Bytes, b5 \in Bytes, h1 \in Hints, h5 \in Hints,
     o1 \in {4, 5}, o5 \in {4, 5}}

\* two empty alternatives that jump anywhere in their own program, then the
\* match
LoopPrograms ==
  {<< first, InstrNop(CONTINUE, t2), InstrMatch(LAST) >> :
     first \in {InstrNop(CONTINUE, t1) : t1 \in 1..3}
                 \cup {InstrByteRange(CONTINUE, 97, 97, 0, t1) : t1 \in 1..3},
     t2 \in 1..3}

\* one byte of a range, then the match
OneBytePrograms ==
  {<< InstrByteRange(LAST, lo, hi, h, 2), InstrMatch(LAST) >> :
     lo \in Bytes, hi \in Bytes, h \in Hints}

\* two bytes one after the other, then the match
TwoBytePrograms ==
  {<< InstrByteRange(LAST, b1, b1, h1, 2),
      InstrByteRange(LAST, b2, b2, h2, o2),
      InstrMatch(LAST) >> :
     b1 \in Bytes, b2 \in Bytes, h1 \in Hints, h2 \in Hints, o2 \in {1, 3}}

\* chains of empty transitions and the match
ChainInstrs(n) ==
  {InstrMatch(LAST)}
    \cup {InstrNop(LAST, t) : t \in 1..n}
    \cup {InstrCapture(LAST, 0, t) : t \in 1..n}

ChainPrograms == UNION {[1..n -> ChainInstrs(n)] : n \in 1..3}

\* a byte, or an empty alternative (Nop or Capture) that leads to the head of
\* another sublist, or a second byte; then the other sublist and the match
AlternationPrograms ==
  {<< InstrByteRange(CONTINUE, b1, b1, h1, 5),
      eps,
      InstrByteRange(LAST, 98, 98, 0, 5),
      InstrByteRange(LAST, b4, b4, h4, 5),
      InstrMatch(LAST) >> :
     b1 \in Bytes, b4 \in Bytes, h1 \in Hints, h4 \in Hints,
     eps \in {InstrNop(CONTINUE, 4), InstrCapture(CONTINUE, 0, 4)}}

Programs ==
  GeneralPrograms \cup FixturePrograms \cup ClassPrograms
    \cup PriorityPrograms \cup LoopPrograms \cup OneBytePrograms
    \cup TwoBytePrograms \cup ChainPrograms \cup AlternationPrograms

Inputs == UNION {[1..n -> Bytes] : n \in 0..MaxInputLen}

-----------------------------------------------------------------------------
(* run: vm.py lines 160-185, as a state machine.  pc is the place in run:  *)
(*   "start"  before line 171                                              *)
(*   "add"    inside the loop of WorkQueue.add, called for queue tgt       *)
(*   "init"   q.add(0, prog) of line 174 has returned                      *)
(*   "loop"   at the test of the while of line 177                         *)
(*   "step"   at the test of the while of line 125                         *)
(*   "skip"   next_q.add of line 137 has returned                          *)
(*   "stepret" _run_on_byte has returned                                   *)
(*   "done"   run has returned last_match_sp                               *)
(*   "error"  an exception left run                                        *)

InitOn(programs) ==
  /\ prog \in programs
  /\ input \in Inputs
  /\ instrs = <<>>
  /\ q = EmptyQueue
  /\ next_q = EmptyQueue
  /\ sp = 0
  /\ last_match_sp = None
  /\ clist = <<>>
  /\ i = 0
  /\ c = 0
  /\ ip = None
  /\ ip_stack = <<>>
  /\ seed = None
  /\ wq0 = EmptyQueue
  /\ tgt = "q"
  /\ ret = "init"
  /\ pc = "start"
  /\ err = ""

Init == InitOn(Programs)

\* Lines 171-174: the start instruction, the two queues, the call q.add(0, prog)
RunInit ==
  /\ pc = "start"
  /\ instrs' = <<InstrNop(LAST, 1)>> \o prog
  /\ q' = EmptyQueue
  /\ next_q' = EmptyQueue
  /\ ip' = 0
  /\ ip_stack' = <<>>
  /\ seed' = 0
  /\ wq0' = EmptyQueue
  /\ tgt' = "q"
  /\ ret' = "init"
  /\ pc' = "add"
  /\ UNCHANGED <<prog, input, sp, last_match_sp, clist, i, c, err>>

Target == IF tgt = "q" THEN q ELSE next_q

\* One iteration of the loop of WorkQueue.add on the queue tgt names
AddStep ==
  /\ pc = "add"
  /\ AddLoopCond(AddState(ip, ip_stack, Target, ""))
  /\ LET st == AddIter(instrs, AddState(ip, ip_stack, Target, ""))
     IN  /\ ip' = st.ip
         /\ ip_stack' = st.ip_stack
         /\ q' = IF tgt = "q" THEN st.wq ELSE q
         /\ next_q' = IF tgt = "q" THEN next_q ELSE st.wq
         /\ err' = st.err
         /\ pc' = IF st.err = "" THEN "add" ELSE "error"
  /\ UNCHANGED <<prog, input, instrs, sp, last_match_sp, clist, i, c, seed, wq0,
                 tgt, ret>>

\* Line 70 finds the loop over: add returns to its caller
AddReturn ==
  /\ pc = "add"
  /\ ~AddLoopCond(AddState(ip, ip_stack, Target, ""))
  /\ pc' = ret
  /\ UNCHANGED <<prog, input, instrs, q, next_q, sp, last_match_sp,
                 clist, i, c, ip, ip_stack, seed, wq0, tgt, ret, err>>

\* lines 175-176 with the match of the first closure forgotten
RunAfterInit_NoInitialMatch ==
  /\ pc = "init"
  /\ sp' = 0
  /\ last_match_sp' = None
  /\ pc' = "loop"
  /\ UNCHANGED <<prog, input, instrs, q, next_q, clist, i, c, ip, ip_stack, seed, wq0,
                 tgt, ret, err>>

\* Lines 175-176
RunAfterInit ==
  /\ pc = "init"
  /\ sp' = 0
  /\ last_match_sp' = IF q.contains_InstrMatch THEN 0 ELSE None
  /\ pc' = "loop"
  /\ UNCHANGED <<prog, input, instrs, q, next_q, clist, i, c, ip, ip_stack, seed, wq0,
                 tgt, ret, err>>

\* Line 177, then the call of line 178 or the return of line 185
RunLoop ==
  /\ pc = "loop"
  /\ IF sp < Len(input) /\ ~is_empty(q)
     THEN /\ clist' = to_list(q)
          /\ c' = input[sp + 1]
          /\ i' = 0
          /\ pc' = "step"
     ELSE /\ pc' = "done"
          /\ UNCHANGED <<clist, c, i>>
  /\ UNCHANGED <<prog, input, instrs, q, next_q, sp, last_match_sp, ip,
                 ip_stack, seed, wq0, tgt, ret, err>>

\* Lines 125-137 and 149-154: the entry under the cursor is dispatched.  A
\* ByteRange that holds the byte calls next_q.add(instr.out, instrs).
StepDispatch ==
  /\ pc = "step"
  /\ i < Len(clist)
  /\ LET instr == At(instrs, clist[i + 1])
     IN  CASE instr.kw \in {"nop", "capture"} ->
                /\ i' = i + 1
                /\ UNCHANGED <<ip, ip_stack, seed, wq0, tgt, ret, pc, err>>
           [] instr.kw = "byte" /\ InRange(instr, c) ->
                /\ ip' = instr.out
                /\ ip_stack' = <<>>
                /\ seed' = instr.out
                /\ wq0' = next_q
                /\ tgt' = "next_q"
                /\ ret' = "skip"
                /\ pc' = "add"
                /\ UNCHANGED <<i, err>>
           [] instr.kw = "byte" /\ ~InRange(instr, c) ->
                /\ i' = i + 1
                /\ UNCHANGED <<ip, ip_stack, seed, wq0, tgt, ret, pc, err>>
           [] instr.kw = "match!" ->
                /\ pc' = "stepret"
                /\ UNCHANGED <<i, ip, ip_stack, seed, wq0, tgt, ret, err>>
           [] OTHER ->
                /\ pc' = "error"
                /\ err' = "ValueError"
                /\ UNCHANGED <<i, ip, ip_stack, seed, wq0, tgt, ret>>
  /\ UNCHANGED <<prog, input, instrs, q, next_q, sp, last_match_sp, clist, c>>

\* Lines 139-148 and 154, after next_q.add has returned
StepSkip ==
  /\ pc = "skip"
  /\ LET to == SkipSublist(instrs, clist, i)
     IN  IF to.err = ""
         THEN /\ i' = to.i + 1
              /\ pc' = "step"
              /\ UNCHANGED err
         ELSE /\ i' = to.i
              /\ pc' = "error"
              /\ err' = to.err
  /\ UNCHANGED <<prog, input, instrs, q, next_q, sp, last_match_sp, clist,
                 c, ip, ip_stack, seed, wq0, tgt, ret>>

\* Line 125 finds the cursor past the list: _run_on_byte returns
StepExit ==
  /\ pc = "step"
  /\ i >= Len(clist)
  /\ pc' = "stepret"
  /\ UNCHANGED <<prog, input, instrs, q, next_q, sp, last_match_sp, clist,
                 i, c, ip, ip_stack, seed, wq0, tgt, ret, err>>

\* lines 179-184 with the test of line 180 forgotten
RunAfterStep_AlwaysRecords ==
  /\ pc = "stepret"
  /\ sp' = sp + 1
  /\ last_match_sp' = sp + 1
  /\ q' = next_q
  /\ next_q' = clear(q)
  /\ pc' = "loop"
  /\ UNCHANGED <<prog, input, instrs, clist, i, c, ip, ip_stack, seed, wq0, tgt, ret, err>>

\* lines 179-184 with the clear of line 184 forgotten
RunAfterStep_NoClear ==
  /\ pc = "stepret"
  /\ sp' = sp + 1
  /\ last_match_sp' = IF next_q.contains_InstrMatch THEN sp + 1 ELSE last_match_sp
  /\ q' = next_q
  /\ next_q' = q
  /\ pc' = "loop"
  /\ UNCHANGED <<prog, input, instrs, clist, i, c, ip, ip_stack, seed, wq0, tgt, ret, err>>

\* lines 179-184 with the match end kept only while the match goes on: a
\* step that finds no match forgets the one found before
RunAfterStep_ForgetsMatch ==
  /\ pc = "stepret"
  /\ sp' = sp + 1
  /\ last_match_sp' = IF next_q.contains_InstrMatch THEN sp + 1 ELSE None
  /\ q' = next_q
  /\ next_q' = clear(q)
  /\ pc' = "loop"
  /\ UNCHANGED <<prog, input, instrs, clist, i, c, ip, ip_stack, seed, wq0, tgt, ret, err>>

\* Lines 179-184: the position, the match, the swap, the clear
RunAfterStep ==
  /\ pc = "stepret"
  /\ sp' = sp + 1
  /\ last_match_sp' = IF next_q.contains_InstrMatch THEN sp + 1 ELSE last_match_sp
  /\ q' = next_q
  /\ next_q' = clear(q)
  /\ pc' = "loop"
  /\ UNCHANGED <<prog, input, instrs, clist, i, c, ip, ip_stack, seed, wq0, tgt, ret, err>>

Next ==
  \/ RunInit
  \/ AddStep
  \/ AddReturn
  \/ RunAfterInit
  \/ RunLoop
  \/ StepDispatch
  \/ StepSkip
  \/ StepExit
  \/ RunAfterStep

Spec == Init /\ [][Next]_vars

\* run on the programs of one ByteRange and the Match.  run is one thread
\* of control, which takes its next step as long as it has one.
OneByteInit == InitOn(OneBytePrograms)

OneByteSpec == OneByteInit /\ [][Next]_vars /\ WF_vars(Next)

-----------------------------------------------------------------------------
(* WorkQueue.add and _run_on_byte as functions of their arguments: the     *)
(* same loop bodies, run to the end.                                       *)

\* WorkQueue.add from the loop state st on.  A loop state that comes back
\* is a loop that never ends: err is "Diverges".
RECURSIVE AddRun(_, _, _)
AddRun(is, st, seen) ==
  IF st.err # "" \/ ~AddLoopCond(st) THEN st
  ELSE IF st \in seen THEN [st EXCEPT !.err = "Diverges"]
  ELSE AddRun(is, AddIter(is, st), seen \cup {st})

\* wq.add(p, is): the queue and the exception, if any
add(is, p, wq) == AddRun(is, AddState(p, <<>>, wq, ""), {})

\* _run_on_byte with the cursor at k: the next queue and the exception, if any
RECURSIVE RunOnByteFrom(_, _, _, _, _)
RunOnByteFrom(is, cl, k, wq, byte) ==
  IF k >= Len(cl) THEN [wq |-> wq, err |-> ""]
  ELSE
    LET instr == At(is, cl[k + 1])
    IN  CASE instr.kw \in {"nop", "capture"} ->
               RunOnByteFrom(is, cl, k + 1, wq, byte)
          [] instr.kw = "byte" /\ InRange(instr, byte) ->
               LET st == add(is, instr.out, wq)
                   to == SkipSublist(is, cl, k)
               IN  IF st.err # "" THEN [wq |-> st.wq, err |-> st.err]
                   ELSE IF to.err # "" THEN [wq |-> st.wq, err |-> to.err]
                   ELSE RunOnByteFrom(is, cl, to.i + 1, st.wq, byte)
          [] instr.kw = "byte" /\ ~InRange(instr, byte) ->
               RunOnByteFrom(is, cl, k + 1, wq, byte)
          [] instr.kw = "match!" -> [wq |-> wq, err |-> ""]
          [] OTHER -> [wq |-> wq, err |-> "ValueError"]

_run_on_byte(is, cl, wq, byte) == RunOnByteFrom(is, cl, 0, wq, byte)

-----------------------------------------------------------------------------
(* Notions of the specification, used to state the claims. *)

\* the indices of the array is
Indices(is) == 0..(Len(is) - 1)

\* p is the first instruction of a sublist
IsHead(is, p) == p = 0 \/ At(is, p - 1).indicator = LAST

\* the empty transitions out of p: Nop/Capture to out, and with CONTINUE to
\* p + 1 as well; ByteRange with CONTINUE to p + 1
EpsEdges(is, p) ==
  IF p \notin Indices(is) THEN {}
  ELSE LET instr == At(is, p)
       IN  (IF instr.kw \in {"nop", "capture"} THEN {instr.out} ELSE {})
             \cup (IF instr.kw \in {"nop", "capture", "byte"}
                      /\ instr.indicator = CONTINUE
                   THEN {p + 1} ELSE {})

\* everything reachable from the set S by empty transitions
RECURSIVE EpsClosure(_, _)
EpsClosure(is, S) ==
  LET T == S \cup UNION {EpsEdges(is, p) : p \in S}
  IN  IF T = S THEN S ELSE EpsClosure(is, T)

EpsReach(is, p) == EpsClosure(is, {p})

\* the sublist heads in the closure of p, and whether it holds a Match
ReachHeads(is, p) ==
  {h \in EpsReach(is, p) : h \in Indices(is) /\ IsHead(is, h)}

ReachesMatch(is, p) ==
  \E m \in EpsReach(is, p) : m \in Indices(is) /\ At(is, m).kw = "match!"

\* the array run builds of the program pr
WithStart(pr) == <<InstrNop(LAST, 1)>> \o pr

\* the last instruction of the program closes its sublist
SublistsClosed(pr) == pr # <<>> /\ pr[Len(pr)].indicator = LAST

\* the invariant of a Program: every jump target is an index of the array,
\* and every sublist ends in a ByteRange or a Match marked LAST
WellFormed(pr) ==
  /\ SublistsClosed(pr)
  /\ \A k \in 1..Len(pr) :
       /\ pr[k].kw # "match!" => pr[k].out \in 0..Len(pr)
       /\ pr[k].indicator = LAST => pr[k].kw \in {"byte", "match!"}
       /\ pr[k].kw = "match!" => pr[k].indicator = LAST

\* the byte lies in the range [min, max] of the ByteRange
Contains(instr, byte) == byte \in instr.min..instr.max

\* the members of the sublist of head h that come after h, up to its last
LaterMembers(is, h) ==
  {m \in Indices(is) :
     /\ h < m
     /\ \A k \in h..(m - 1) : At(is, k).indicator = CONTINUE}

-----------------------------------------------------------------------------
(* C1: the test of tests/test_vm.py. *)

\* C1: run on the program a|empty|b returns match end 1 for every input
\* whose first byte is 0x61 (so for 0x61 0x62), and raises nothing.
C1_FixtureMatchesA ==
  (prog \in FixturePrograms /\ input # <<>> /\ input[1] = 97)
    => /\ pc # "error"
       /\ pc = "done" => last_match_sp = 1

C1_Witness ==
  /\ prog = AOrEpsOrB(0, 0)
  /\ input = <<97, 98>>
  /\ pc = "done"
  /\ last_match_sp = 1

-----------------------------------------------------------------------------
(* C2: every alternative of an active sublist is evaluated. *)

\* the first member of the sublist of head h, after h, that is a ByteRange
\* holding byte; None when there is none
FirstLaterHit(is, h, byte) ==
  LET hits == {m \in LaterMembers(is, h) :
                 At(is, m).kw = "byte" /\ Contains(At(is, m), byte)}
  IN  IF hits = {} THEN None
      ELSE CHOOSE m \in hits : \A m2 \in hits : m <= m2

\* C2: when a byte step has ended, for every active sublist head that is a
\* ByteRange not holding the byte while a later ByteRange of its sublist
\* holds it, the closure of that member's out is in the next set.  (Heads
\* behind a Match entry of the active list are left out: the step is to stop
\* at the Match.)
C2_EveryAlternativeEvaluated ==
  pc = "stepret" =>
    \A k \in 1..Len(clist) :
      LET h == clist[k]
          m == FirstLaterHit(instrs, h, c)
      IN  ( /\ \A j \in 1..k : At(instrs, clist[j]).kw # "match!"
            /\ At(instrs, h).kw = "byte"
            /\ ~Contains(At(instrs, h), c)
            /\ m # None )
          => /\ ReachHeads(instrs, At(instrs, m).out)
                  \subseteq Range(next_q.ordered_dict)
             /\ ReachesMatch(instrs, At(instrs, m).out)
                  => next_q.contains_InstrMatch

-----------------------------------------------------------------------------
(* C3: a Match entry ends the byte step. *)

\* C3: the cursor of a byte step never stands on an entry of the active list
\* that comes after a Match entry.
C3_NothingEvaluatedAfterMatch ==
  (pc \in {"step", "skip"} /\ i < Len(clist))
    => \A k \in 1..i : At(instrs, clist[k]).kw # "match!"

-----------------------------------------------------------------------------
(* C4: the hint and the scan skip the same entries. *)

\* the program with every hint forced to 0
ZeroHints(is) == [k \in 1..Len(is) |-> [is[k] EXCEPT !.hint = 0]]

\* the last member of the sublist that holds index p
RECURSIVE SublistEnd(_, _)
SublistEnd(is, p) ==
  IF p >= Len(is) - 1 \/ At(is, p).indicator = LAST THEN p
  ELSE SublistEnd(is, p + 1)

\* every hint is 0 or the distance to the start of the next sublist
HintsPrecomputed(is) ==
  \A p \in Indices(is) :
    At(is, p).kw = "byte" =>
      At(is, p).hint \in {0, SublistEnd(is, p) + 1 - p}

\* C4: at the start of a byte step on a program with precomputed hints, the
\* step and the step of the same program with every hint forced to 0 end the
\* same way: the same ordered next set and match flag, or both in an
\* exception.
C4_HintEquivalence ==
  (pc = "step" /\ i = 0 /\ HintsPrecomputed(instrs))
    => LET hinted == _run_on_byte(instrs, clist, EmptyQueue, c)
           scanned == _run_on_byte(ZeroHints(instrs), clist, EmptyQueue, c)
       IN  /\ (hinted.err = "") = (scanned.err = "")
           /\ hinted.err = "" => hinted.wq = scanned.wq

-----------------------------------------------------------------------------
(* C5: what WorkQueue.add records. *)

NoDuplicates(s) == \A j, k \in 1..Len(s) : s[j] = s[k] => j = k

-----------------------------------------------------------------------------
(* C6: WorkQueue.add ends. *)

\* C6: for a well-formed program (valid jump targets, every sublist ended
\* by a ByteRange or a Match marked LAST) every call of add finishes: none
\* runs on, pushing pending pointers until the memory is used up.
C6_AddTerminates ==
  WellFormed(prog) => ~(pc = "error" /\ err = "MemoryError")

-----------------------------------------------------------------------------
(* C7: what run returns. *)

\* the thread set after the first p bytes of inp, by the two routines alone:
\* no driver, no early exit
RECURSIVE SetAfter(_, _, _)
SetAfter(is, inp, p) ==
  IF p = 0 THEN add(is, 0, EmptyQueue)
  ELSE LET before == SetAfter(is, inp, p - 1)
       IN  IF before.err # "" THEN before
           ELSE LET r == _run_on_byte(is, to_list(before.wq), EmptyQueue, inp[p])
                IN  AddState(None, <<>>, r.wq, r.err)

MatchPositions(is, inp) ==
  {p \in 0..Len(inp) :
     SetAfter(is, inp, p).err = "" /\ SetAfter(is, inp, p).wq.contains_InstrMatch}

Greatest(S) == IF S = {} THEN None ELSE CHOOSE x \in S : \A y \in S : y <= x

\* C7: run returns the greatest position p of 0..len(input) at which the
\* thread set after p bytes has its match flag set, and None when there is
\* no such position.
C7_RunReturnsLastMatch ==
  pc = "done" => last_match_sp = Greatest(MatchPositions(instrs, input))

\* a match found by the closure after the last byte only
C7_Witness ==
  /\ pc = "done"
  /\ Len(input) = 2
  /\ last_match_sp = Len(input)
  /\ MatchPositions(instrs, input) = {Len(input)}

-----------------------------------------------------------------------------
(* C8: the immediate match. *)

\* following out from index p of the array, through Nop and Capture marked
\* LAST, a Match is met within fuel steps
RECURSIVE ChainsToMatch(_, _, _)
ChainsToMatch(is, p, fuel) ==
  /\ p \in Indices(is)
  /\ \/ At(is, p).kw = "match!" /\ At(is, p).indicator = LAST
     \/ /\ fuel > 0
        /\ At(is, p).kw \in {"nop", "capture"}
        /\ At(is, p).indicator = LAST
        /\ ChainsToMatch(is, At(is, p).out, fuel - 1)

ImmediateMatch(pr) == ChainsToMatch(WithStart(pr), 0, Len(pr))

\* C8: for a program whose entry chains by empty transitions to Match, run
\* returns 0 for every input and raises nothing.
C8_ImmediateMatch ==
  ImmediateMatch(prog)
    => /\ pc # "error"
       /\ pc = "done" => last_match_sp = 0

C8_Witness ==
  /\ ImmediateMatch(prog)
  /\ Len(prog) = 3
  /\ prog[1].kw = "capture"
  /\ Len(input) = 2
  /\ pc = "done"
  /\ last_match_sp = 0

-----------------------------------------------------------------------------
(* C9: no match, and an end. *)

NeverInRange(pr, inp) == inp = <<>> \/ ~Contains(pr[1], inp[1])

\* C9: for a program of one ByteRange and the Match behind it, run on an
\* input that is empty or whose first byte is outside the range ends, and
\* returns None.
C9_NoMatchTerminates ==
  (prog \in OneBytePrograms /\ NeverInRange(prog, input))
    => <>(pc = "done" /\ last_match_sp = None)

C9_Witness ==
  /\ prog \in OneBytePrograms
  /\ input # <<>>
  /\ ~Contains(prog[1], input[1])
  /\ prog[1].min <= prog[1].max
  /\ pc = "done"
  /\ last_match_sp = None

-----------------------------------------------------------------------------
(* C10: a malformed program is refused. *)

Malformed(pr) ==
  \/ pr = <<>>
  \/ \E k \in 1..Len(pr) : pr[k].kw # "match!" /\ pr[k].out \notin 0..Len(pr)

\* C10: run on a program that is empty or holds a jump target outside the
\* instruction array never returns: it ends in an exception.
C10_MalformedRefused ==
  Malformed(prog) => pc # "done"

-----------------------------------------------------------------------------
(* C11: add on a pointer the set already holds. *)

\* C11: a call of add whose pointer is already recorded in the set it is
\* called on returns with the set as it found it, and when any call of add
\* has returned, one more add with any recorded pointer raises nothing and
\* leaves the members, their order and the match flag as they are.
C11_ClosureIdempotent ==
  pc \in {"init", "skip"} =>
    /\ seed \in Range(wq0.ordered_dict) => Target = wq0
    /\ \A h \in Range(Target.ordered_dict) :
         LET again == add(instrs, h, Target)
         IN  again.err = "" /\ again.wq = Target

\* the byte step calls add with the pointer a former call of the same step
\* recorded, on a set that holds the Match
C11_Witness ==
  /\ pc = "skip"
  /\ seed \in Range(wq0.ordered_dict)
  /\ wq0.contains_InstrMatch
  /\ next_q = wq0

-----------------------------------------------------------------------------
(* C12: the best match end only grows. *)

\* C12: in every step of run, a match end that is set stays set, a change
\* of the match end is a change to a greater value, and the assignment after
\* a byte step that found a match gives a value greater than the one before.
C12_MatchEndGrows ==
  [][ /\ last_match_sp # None => last_match_sp' # None
      /\ last_match_sp' # last_match_sp =>
            last_match_sp' # None
              /\ (last_match_sp # None => last_match_sp' > last_match_sp)
      /\ (pc = "stepret" /\ next_q.contains_InstrMatch /\ last_match_sp # None)
            => last_match_sp' > last_match_sp ]_vars

\* the match end was set to 0 by the first closure, raised to 1 by the first
\* byte step and kept by the second, which found no match
C12_Witness ==
  /\ pc = "loop"
  /\ sp = 2
  /\ last_match_sp = 1
  /\ 0 \in MatchPositions(instrs, input)
  /\ 2 \notin MatchPositions(instrs, input)

-----------------------------------------------------------------------------
(* C13: a Capture behaves as a Nop. *)

\* the array with every Capture replaced by a Nop of the same indicator and
\* the same out
CapturesAsNops(is) ==
  [k \in 1..Len(is) |->
     IF is[k].kw = "capture" THEN InstrNop(is[k].indicator, is[k].out) ELSE is[k]]

\* C13: run on a program that holds a Capture goes as the two routines go
\* on the program with every Capture replaced by a Nop: the same ordered
\* thread set and match flag after the first closure and after every byte
\* step, the same result, and an exception only where the replaced program
\* raises one.
C13_CaptureIsNop ==
  LET nops == CapturesAsNops(instrs)
  IN  instrs # nops =>
        /\ pc \in {"init", "loop"} =>
              SetAfter(nops, input, sp) = AddState(None, <<>>, q, "")
        /\ pc = "stepret" =>
              SetAfter(nops, input, sp + 1) = AddState(None, <<>>, next_q, "")
        /\ pc = "done" => last_match_sp = Greatest(MatchPositions(nops, input))
        /\ pc = "error" =>
              \E p \in 0..Len(input) : SetAfter(nops, input, p).err # ""

\* a byte step that passed a Capture of the active list, on a set the
\* closure built through that Capture
C13_Witness ==
  /\ pc = "stepret"
  /\ \E k \in 1..Len(clist) : k <= i /\ At(instrs, clist[k]).kw = "capture"
  /\ instrs # CapturesAsNops(instrs)
  /\ q.contains_InstrMatch

-----------------------------------------------------------------------------
(* C15: out is explored before the sibling. *)

\* the pointer the coming iteration of add works on
AddPointer == IF ip = None THEN ip_stack[Len(ip_stack)] ELSE ip

\* the coming iteration of add walks a Nop or Capture marked CONTINUE
AtBranch ==
  /\ pc = "add"
  /\ ip # None \/ Len(ip_stack) > 0
  /\ AddPointer \in Indices(instrs)
  /\ AddPointer \notin Range(Target.ordered_dict)
  /\ At(instrs, AddPointer).kw \in {"nop", "capture"}
  /\ At(instrs, AddPointer).indicator = CONTINUE

IsPrefix(s, t) == Len(s) <= Len(t) /\ SubSeq(t, 1, Len(s)) = s

\* the rest of the call of add from the branch on
BranchWhole ==
  AddRun(instrs, AddIter(instrs, AddState(ip, ip_stack, Target, "")), {})

\* the set once the branch is recorded, then with the closure of its out
\* alone, then with the closure of its sibling on top of that
BranchRecorded ==
  IF IsHead(instrs, AddPointer) THEN Append(Target.ordered_dict, AddPointer)
  ELSE Target.ordered_dict

BranchOut ==
  add(instrs, At(instrs, AddPointer).out,
      [Target EXCEPT !.ordered_dict = BranchRecorded])

BranchSibling == add(instrs, AddPointer + 1, BranchOut.wq)

\* C15: when add walks a Nop or Capture marked CONTINUE and the call
\* returns, the set it leaves starts with what was recorded up to the
\* branch, goes on with the heads new in the closure of out, in their order,
\* and only then with the heads new in the closure of the sibling.
C15_OutBeforeSibling ==
  (AtBranch /\ BranchWhole.err = "")
    => /\ BranchOut.err = ""
       /\ BranchSibling.err = ""
       /\ IsPrefix(BranchRecorded, BranchOut.wq.ordered_dict)
       /\ IsPrefix(BranchOut.wq.ordered_dict, BranchSibling.wq.ordered_dict)
       /\ IsPrefix(BranchSibling.wq.ordered_dict, BranchWhole.wq.ordered_dict)

\* a branch whose out and whose sibling each lead to a head not yet recorded
C15_Witness ==
  /\ AtBranch
  /\ BranchWhole.err = ""
  /\ Len(BranchOut.wq.ordered_dict) > Len(BranchRecorded)
  /\ Len(BranchSibling.wq.ordered_dict) > Len(BranchOut.wq.ordered_dict)

-----------------------------------------------------------------------------
(* C16: what a thread set holds. *)

\* no pointer twice, and every pointer an index of the array at the head of
\* a sublist
ThreadSetOk(wq) ==
  /\ NoDuplicates(wq.ordered_dict)
  /\ \A p \in Range(wq.ordered_dict) : p \in Indices(instrs) /\ IsHead(instrs, p)

\* C16: in every state of run, the current and the next thread set hold no
\* pointer twice, and every pointer they hold is an index of the instruction
\* array that is the head of a sublist: index 0, or an index whose
\* predecessor is marked LAST.
C16_WorkQueueInvariant == ThreadSetOk(q) /\ ThreadSetOk(next_q)

\* a byte step has ended with three heads or more in the current set and two
\* or more in the next, for a program whose first closure walked a pointer
\* that is no head
C16_Witness ==
  /\ pc = "stepret"
  /\ Len(q.ordered_dict) >= 3
  /\ Len(next_q.ordered_dict) >= 2
  /\ \E p \in EpsReach(instrs, 0) : p \in Indices(instrs) /\ ~IsHead(instrs, p)

-----------------------------------------------------------------------------
(* C17: the hint skips the current sublist and nothing else. *)

\* C17: for a program with precomputed hints, when a ByteRange with a
\* nonzero hint has consumed the byte and the step goes on, every entry of
\* the active list the cursor passes over without evaluating it, and that
\* has no Match entry before it, is a member of the sublist of the
\* ByteRange: no head of another sublist is skipped.
C17_HintSkipWithinSublist ==
  [][ ( /\ pc = "skip"
        /\ pc' = "step"
        /\ HintsPrecomputed(instrs)
        /\ At(instrs, clist[i + 1]).hint > 0 )
      => \A k \in (i + 1)..(i' - 1) :
           ( /\ k < Len(clist)
             /\ \A j \in 0..k : At(instrs, clist[j + 1]).kw # "match!" )
           => SublistEnd(instrs, clist[k + 1]) = SublistEnd(instrs, clist[i + 1])
    ]_vars

-----------------------------------------------------------------------------
(* C18: the scan for the last member of the sublist stays in the list. *)

\* the scan of lines 146-148 has read clist at its length
ScanOverran ==
  /\ pc = "error"
  /\ err = "IndexError"
  /\ ret = "skip"
  /\ i >= Len(clist)

\* C18: for a well-formed program, the scan that follows a ByteRange with
\* hint 0 consuming the byte never reads the active list at or past its
\* length: no byte step ends in an IndexError of the scan.
C18_ScanInBounds == WellFormed(prog) => ~ScanOverran

-----------------------------------------------------------------------------
(* C19: the two thread sets of the driver loop. *)

\* run is inside the call of _run_on_byte of line 178
InStep == pc \in {"step", "skip"} \/ (pc = "add" /\ tgt = "next_q")

\* C19: whenever run comes to the test of its loop, the next set is empty
\* and its match flag is false; entering and taking a byte step leave the
\* current set as it is; and the next set a byte step returns, flag
\* included, is the one the step builds from an empty set on the current set
\* and the byte.
C19_DoubleBufferReset ==
  [][ /\ pc' = "loop" => next_q' = EmptyQueue
      /\ (pc = "loop" \/ InStep) => q' = q
      /\ (pc = "loop" /\ pc' = "step") => next_q' = next_q /\ clist' = q.ordered_dict
      /\ (InStep /\ pc' = "stepret")
            => next_q' = _run_on_byte(instrs, q.ordered_dict, EmptyQueue,
                                      input[sp + 1]).wq
    ]_vars

\* before the test of the loop for the third time: the set cleared last held
\* the Match, the set now current does not
C19_Witness ==
  /\ pc = "loop"
  /\ sp = 2
  /\ next_q = EmptyQueue
  /\ ~q.contains_InstrMatch
  /\ SetAfter(instrs, input, 1).wq.contains_InstrMatch

====
